---------------------------- MODULE Spec2Model ----------------------------
(***************************************************************************)
(* PlexPing: three single-shot monitor scripts                             *)
(*   "uc"         src/plex_monitor.py            (undetected-chromedriver) *)
(*   "selenium"   src/plex_selenium_monitor.py                             *)
(*   "playwright" src/plex_playwright_monitor.py                           *)
(* Each script builds a monitor object from the environment, checks the    *)
(* monitoring window, drives a browser against the Plex server and posts   *)
(* one message to a Discord webhook.                                       *)
(***************************************************************************)
EXTENDS Integers, Sequences, FiniteSets, TLC

VARIABLES
    variant,      \* which of the three scripts is being run
    env,          \* the process environment (os.getenv)
    clock,        \* datetime.now().hour
    pc,           \* position of the script
    monitor,      \* the monitor object's fields (self.*)
    current_hour, \* the hour read by is_within_time_window (-1: not read)
    in_window,    \* value returned by is_within_time_window
    browser,      \* the browser instance of this run
    calls,        \* operations invoked so far, in order
    sent,         \* arguments of send_discord_notification, in order
    posts,        \* requests.post calls made, in order
    log,          \* logging records, in order
    raised,       \* exceptions raised inside run_once so far, in order
    results,      \* (success, message) pairs the resource check returned
    pending,      \* exception propagating to the script's main block
    exit_status   \* process exit status (-1 while running)

vars == <<variant, env, clock, pc, monitor, current_hour, in_window, browser,
          calls, sent, posts, log, raised, results, pending, exit_status>>

-----------------------------------------------------------------------------
(* Values *)

Variants == {"uc", "selenium", "playwright"}

Hours == 0..23

\* A Python str-or-None value.
None == [none |-> TRUE, val |-> ""]
Str(s) == [none |-> FALSE, val |-> s]

\* Python truthiness of a str-or-None value: None and "" are falsy.
Truthy(v) == (~v.none) /\ v.val # ""

\* An environment variable: unset, or set to a text.
Unset == [set |-> FALSE, val |-> <<>>]
SetTo(s) == [set |-> TRUE, val |-> s]

Digits == {"0", "1", "2", "3", "4", "5", "6", "7", "8", "9"}

DigitVal(c) ==
    CASE c = "0" -> 0 [] c = "1" -> 1 [] c = "2" -> 2 [] c = "3" -> 3
      [] c = "4" -> 4 [] c = "5" -> 5 [] c = "6" -> 6 [] c = "7" -> 7
      [] c = "8" -> 8 [] c = "9" -> 9

RECURSIVE DecVal(_)
DecVal(s) ==
    IF s = <<>> THEN 0
    ELSE 10 * DecVal(SubSeq(s, 1, Len(s) - 1)) + DigitVal(s[Len(s)])

AllDigits(s) == Len(s) > 0 /\ \A i \in 1..Len(s) : s[i] \in Digits

\* int(text) on a text given as a sequence of characters: an optional
\* sign followed by decimal digits; anything else raises ValueError.
py_int(s) ==
    IF s # <<>> /\ s[1] = "-" /\ AllDigits(Tail(s))
        THEN [ok |-> TRUE, val |-> 0 - DecVal(Tail(s))]
    ELSE IF AllDigits(s)
        THEN [ok |-> TRUE, val |-> DecVal(s)]
    ELSE [ok |-> FALSE, val |-> 0]

DigitChar(d) ==
    CASE d = 0 -> "0" [] d = 1 -> "1" [] d = 2 -> "2" [] d = 3 -> "3"
      [] d = 4 -> "4" [] d = 5 -> "5" [] d = 6 -> "6" [] d = 7 -> "7"
      [] d = 8 -> "8" [] d = 9 -> "9"

\* The decimal text of an hour of the day, as written in the environment.
HourText(h) ==
    IF h < 10 THEN <<DigitChar(h)>> ELSE <<DigitChar(h \div 10), DigitChar(h % 10)>>

\* os.getenv(name) and os.getenv(name, default)
getenv(e, name) == IF e[name].set THEN Str(e[name].val) ELSE None
getenv_default(e, name, default) == IF e[name].set THEN e[name].val ELSE default

-----------------------------------------------------------------------------
(* Inputs *)

\* Texts START_HOUR and END_HOUR take in the environment.
HourTexts == {<<"6">>, <<"2", "2">>, <<"2", "4">>, <<"-", "1">>, <<"8", "x">>}
HourEnv == {Unset} \cup {SetTo(t) : t \in HourTexts}

UrlEnv == {[set |-> FALSE, val |-> ""], [set |-> TRUE, val |-> ""],
           [set |-> TRUE, val |-> "https://plex.example/web"]}
WebhookEnv == {[set |-> FALSE, val |-> ""], [set |-> TRUE, val |-> ""],
               [set |-> TRUE, val |-> "https://discord.example/hook"]}

\* PLEX_USERNAME and PLEX_PASSWORD: the account of the monitored server.
CredEnv == {[set |-> TRUE, val |-> "secret"]}

\* Hours the clock shows when the script is started: both sides of every
\* boundary of the windows HourTexts can configure.
ClockHours == {0, 1, 2, 3, 6, 7, 8, 10, 22, 23}

\* Descriptions str(e) of the exceptions the browser and the network raise.
ExcTexts == {"timed out", "session crashed"}

\* Outcomes of requests.post: an HTTP status, or an exception.
PostOutcomes == {"204", "500", "raised"}

-----------------------------------------------------------------------------
(* is_within_time_window *)

\* Variant: the end hour taken as part of a plain window.
is_within_time_window_inclusive_end(start_hour, end_hour, hour) ==
    IF start_hour < end_hour
        THEN start_hour <= hour /\ hour <= end_hour
        ELSE hour >= start_hour \/ hour < end_hour

\* Variant: the two halves of a wrap-around window joined by "and".
is_within_time_window_wrap_and(start_hour, end_hour, hour) ==
    IF start_hour < end_hour
        THEN start_hour <= hour /\ hour < end_hour
        ELSE hour >= start_hour /\ hour < end_hour

\* Variant: equal hours treated as a plain window.
is_within_time_window_le(start_hour, end_hour, hour) ==
    IF start_hour <= end_hour
        THEN start_hour <= hour /\ hour < end_hour
        ELSE hour >= start_hour \/ hour < end_hour

\* Variant: the wrap-around branch includes end_hour.
is_within_time_window_wrap_inclusive(start_hour, end_hour, hour) ==
    IF start_hour < end_hour
        THEN start_hour <= hour /\ hour < end_hour
        ELSE hour >= start_hour \/ hour <= end_hour

\* src/plex_monitor.py:286-294 (identical in the other two scripts)
is_within_time_window(start_hour, end_hour, hour) ==
    IF start_hour < end_hour
        THEN start_hour <= hour /\ hour < end_hour
        ELSE hour >= start_hour \/ hour < end_hour


-----------------------------------------------------------------------------
(* Messages, log records, results *)

\* A text built as f"{text}{arg}": a fixed part and an interpolated part.
Detail(text, arg) == [text |-> text, arg |-> arg]
NoDetail == Detail("", "")

\* The content handed to send_discord_notification / requests.post:
\* headline, the formatted current_time, and the trailing detail line.
Message(title, time, detail) == [title |-> title, time |-> time, detail |-> detail]

LogRec(level, msg, arg) == [level |-> level, msg |-> msg, arg |-> arg]

\* An exception raised while the named operation ran: its class as the
\* handlers distinguish it, and its description str(e).
Exc(op, type, exc) == [op |-> op, type |-> type, exc |-> exc]

\* An operation invoked, with what it returned.
Call(op, ret) == [op |-> op, ret |-> ret]

\* What a call gives back to run_once: a return value (ok, message) or an
\* exception (raised, exc), the log records it wrote, and the exceptions
\* raised inside it (caught there or not).
Returned(ok, message, lg, excs) ==
    [raised |-> FALSE, exc |-> "", ok |-> ok, message |-> message, log |-> lg,
     excs |-> excs]
Raised(exc, lg, excs) ==
    [raised |-> TRUE, exc |-> exc, ok |-> FALSE, message |-> NoDetail, log |-> lg,
     excs |-> excs]

\* The pair a resource check returns to run_once.
Result(succeeded, detail) == [succeeded |-> succeeded, detail |-> detail]

Ret(r) == IF r.raised THEN "raised" ELSE IF r.ok THEN "True" ELSE "False"

-----------------------------------------------------------------------------
(* __init__ *)

\* The value of the name monitor before the constructor has returned.
NoMonitor ==
    [plex_url |-> None, plex_username |-> None, plex_password |-> None,
     webhook_url |-> None, start_hour |-> 0, end_hour |-> 0]

\* src/plex_monitor.py:33-49, src/plex_selenium_monitor.py:35-51
\* The result is the constructed object, or the ValueError raised.
PlexBrowserMonitor_init(e) ==
    LET plex_url == getenv(e, "PLEX_URL")
        webhook_url == getenv(e, "PLEX_DISCORD_WEBHOOK")
        start_hour == py_int(getenv_default(e, "START_HOUR", <<"8">>))
        end_hour == py_int(getenv_default(e, "END_HOUR", <<"2">>))
    IN  IF ~start_hour.ok \/ ~end_hour.ok
            THEN [raised |-> TRUE, exc |-> "invalid literal for int()",
                  self |-> NoMonitor,
                  log |-> <<>>]
        ELSE IF ~Truthy(plex_url)
            THEN [raised |-> TRUE, exc |-> "Missing Plex URL.",
                  self |-> NoMonitor,
                  log |-> <<LogRec("error", "Missing Plex URL!", "")>>]
        ELSE [raised |-> FALSE, exc |-> "",
              self |-> [plex_url |-> plex_url,
                        plex_username |-> getenv(e, "PLEX_USERNAME"),
                        plex_password |-> getenv(e, "PLEX_PASSWORD"),
                        webhook_url |-> webhook_url,
                        start_hour |-> start_hour.val, end_hour |-> end_hour.val],
              log |-> IF ~Truthy(webhook_url)
                        THEN <<LogRec("warning", "Discord webhook URL not configured. No notifications will be sent.", "")>>
                        ELSE <<>>]

-----------------------------------------------------------------------------
(* send_discord_notification *)

\* State of the screenshot file named by the screenshot argument.
ShotStates == {"absent", "readable", "unreadable"}

\* Variant: a post that did not give 204 is made a second time.
send_discord_notification_retry(webhook_url, message, shot, outcome, e) ==
    IF ~Truthy(webhook_url)
        THEN [posts |-> <<>>,
              log |-> <<LogRec("warning", "Discord webhook URL not configured", "")>>]
    ELSE IF shot = "unreadable"
        \* open(screenshot, 'rb') raises inside the try block
        THEN [posts |-> <<>>,
              log |-> <<LogRec("error", "Error sending Discord notification: ", e)>>]
    ELSE LET post == [url |-> webhook_url.val, content |-> message,
                      file |-> (shot = "readable"), outcome |-> outcome]
         IN  [posts |-> IF outcome = "204" THEN <<post>> ELSE <<post, post>>,
              log |-> IF outcome = "204"
                        THEN <<LogRec("info", "Discord notification sent successfully", "")>>
                      ELSE IF outcome = "raised"
                        THEN <<LogRec("error", "Error sending Discord notification: ", e)>>
                      ELSE <<LogRec("error", "Failed to send Discord notification: ", outcome)>>]

\* Variant: the function posts without testing webhook_url first.
send_discord_notification_no_guard(webhook_url, message, shot, outcome, e) ==
    IF shot = "unreadable"
        THEN [posts |-> <<>>,
              log |-> <<LogRec("error", "Error sending Discord notification: ", e)>>]
    ELSE LET post == [url |-> webhook_url.val, content |-> message,
                      file |-> (shot = "readable"), outcome |-> outcome]
         IN  [posts |-> <<post>>,
              log |-> IF outcome = "204"
                        THEN <<LogRec("info", "Discord notification sent successfully", "")>>
                      ELSE IF outcome = "raised"
                        THEN <<LogRec("error", "Error sending Discord notification: ", e)>>
                      ELSE <<LogRec("error", "Failed to send Discord notification: ", outcome)>>]

\* src/plex_monitor.py:259-284 (no screenshot: shot = "none")
\* src/plex_selenium_monitor.py:141-178
\* Gives the requests.post calls made and the log records written.
send_discord_notification(webhook_url, message, shot, outcome, e) ==
    IF ~Truthy(webhook_url)
        THEN [posts |-> <<>>,
              log |-> <<LogRec("warning", "Discord webhook URL not configured", "")>>]
    ELSE IF shot = "unreadable"
        \* open(screenshot, 'rb') raises inside the try block
        THEN [posts |-> <<>>,
              log |-> <<LogRec("error", "Error sending Discord notification: ", e)>>]
    ELSE LET post == [url |-> webhook_url.val, content |-> message,
                      file |-> (shot = "readable"), outcome |-> outcome]
         IN  [posts |-> <<post>>,
              log |-> IF outcome = "204"
                        THEN <<LogRec("info", "Discord notification sent successfully", "")>>
                      ELSE IF outcome = "raised"
                        THEN <<LogRec("error", "Error sending Discord notification: ", e)>>
                      ELSE <<LogRec("error", "Failed to send Discord notification: ", outcome)>>]

-----------------------------------------------------------------------------
(* setup_browser *)

SetupOutcomes == {"ok", "raised_before_launch", "raised_after_launch"}

\* src/plex_monitor.py:51-74, src/plex_selenium_monitor.py:53-79
\* ok: the browser object is returned; otherwise the exception is logged
\* and None is returned.  browser: what became of the browser process.
setup_browser(outcome, e) ==
    IF outcome = "ok"
        THEN [browser |-> "open", returned |-> TRUE, log |-> <<>>, excs |-> <<>>]
    ELSE [browser |-> IF outcome = "raised_after_launch" THEN "lost" ELSE "none",
          returned |-> FALSE,
          log |-> <<LogRec("error", "Failed to initialize browser: ", e)>>,
          excs |-> <<Exc("setup_browser", "Exception", e)>>]

-----------------------------------------------------------------------------
(* login_to_plex (uc only) *)

LoginOutcomes == {"already_logged_in", "password_field_missing",
                  "interface_loaded", "interface_not_loaded", "raised"}

\* src/plex_monitor.py:76-147
login_to_plex(outcome, e) ==
    CASE outcome = "already_logged_in" ->
            Returned(TRUE, NoDetail, <<LogRec("info", "Already logged in to Plex", "")>>, <<>>)
      [] outcome = "password_field_missing" ->
            Returned(FALSE, NoDetail, <<LogRec("error", "Password field not found", "")>>,
                     <<Exc("login_to_plex", "NoSuchElementException", e)>>)
      [] outcome = "interface_loaded" ->
            Returned(TRUE, NoDetail, <<LogRec("info", "Clicked Sign In button", "")>>, <<>>)
      [] outcome = "interface_not_loaded" ->
            Returned(FALSE, NoDetail, <<LogRec("info", "Clicked Sign In button", "")>>, <<>>)
      [] outcome = "raised" ->
            Returned(FALSE, NoDetail, <<LogRec("error", "Error during login: ", e)>>,
                     <<Exc("login_to_plex", "Exception", e)>>)

-----------------------------------------------------------------------------
(* attempt_to_play_media (uc) *)

PlayOutcomes == {"no_libraries", "no_media_items", "played", "player_not_loaded",
                 "play_button_timeout", "play_raised", "raised"}

\* Values of the aria-label attribute of the chosen media card.
AriaLabels == {"", "Inception"}

\* Variant: the generic handlers return a fixed text.
attempt_to_play_media_no_desc(outcome, label, e) ==
    LET media_title == IF label # "" THEN label ELSE "Unknown title"
    IN  CASE outcome = "no_libraries" ->
                Returned(FALSE, Detail("No libraries found", ""),
                         <<LogRec("error", "No library elements found", "")>>, <<>>)
          [] outcome = "no_media_items" ->
                Returned(FALSE, Detail("No media items found", ""),
                         <<LogRec("error", "No media items found in the library", "")>>, <<>>)
          [] outcome = "played" ->
                Returned(TRUE, Detail("Successfully played: ", media_title),
                         <<LogRec("info", "Player loaded successfully", "")>>, <<>>)
          [] outcome = "player_not_loaded" ->
                Returned(FALSE, Detail("Player didn't load", ""),
                         <<LogRec("warning", "Play button clicked but player didn't load", "")>>, <<>>)
          [] outcome = "play_button_timeout" ->
                Returned(FALSE, Detail("Play button not found", ""),
                         <<LogRec("error", "Couldn't find play button", "")>>,
                         <<Exc("attempt_to_play_media", "TimeoutException", e)>>)
          [] outcome = "play_raised" ->
                Returned(FALSE, Detail("Error during playback", ""),
                         <<LogRec("error", "Error during play attempt: ", e)>>,
                         <<Exc("attempt_to_play_media", "Exception", e)>>)
          [] outcome = "raised" ->
                Returned(FALSE, Detail("Error", ""),
                         <<LogRec("error", "Error attempting to play media: ", e)>>,
                         <<Exc("attempt_to_play_media", "Exception", e)>>)

\* src/plex_monitor.py:173-257
attempt_to_play_media(outcome, label, e) ==
    LET media_title == IF label # "" THEN label ELSE "Unknown title"
    IN  CASE outcome = "no_libraries" ->
                Returned(FALSE, Detail("No libraries found", ""),
                         <<LogRec("error", "No library elements found", "")>>, <<>>)
          [] outcome = "no_media_items" ->
                Returned(FALSE, Detail("No media items found", ""),
                         <<LogRec("error", "No media items found in the library", "")>>, <<>>)
          [] outcome = "played" ->
                Returned(TRUE, Detail("Successfully played: ", media_title),
                         <<LogRec("info", "Player loaded successfully", "")>>, <<>>)
          [] outcome = "player_not_loaded" ->
                Returned(FALSE, Detail("Player didn't load", ""),
                         <<LogRec("warning", "Play button clicked but player didn't load", "")>>, <<>>)
          [] outcome = "play_button_timeout" ->
                Returned(FALSE, Detail("Play button not found", ""),
                         <<LogRec("error", "Couldn't find play button", "")>>,
                         <<Exc("attempt_to_play_media", "TimeoutException", e)>>)
          [] outcome = "play_raised" ->
                Returned(FALSE, Detail("Error during playback: ", e),
                         <<LogRec("error", "Error during play attempt: ", e)>>,
                         <<Exc("attempt_to_play_media", "Exception", e)>>)
          [] outcome = "raised" ->
                Returned(FALSE, Detail("Error: ", e),
                         <<LogRec("error", "Error attempting to play media: ", e)>>,
                         <<Exc("attempt_to_play_media", "Exception", e)>>)

-----------------------------------------------------------------------------
(* check_plex_availability (selenium) *)

AvailOutcomes == {"elements_found", "plex_in_content", "no_plex_content",
                  "elements_raised", "raised"}

\* Variant: without the outer try block, the exception leaves the check.
check_plex_availability_propagates(outcome, e) ==
    CASE outcome = "elements_found" ->
            Returned(TRUE, Detail("Plex web interface is accessible", ""),
                     <<LogRec("info", "Found Plex elements: ", "")>>, <<>>)
      [] outcome = "plex_in_content" ->
            Returned(TRUE, Detail("Plex web interface is accessible (detected in content)", ""),
                     <<LogRec("info", "Page content appears to be related to Plex", "")>>, <<>>)
      [] outcome = "no_plex_content" ->
            Returned(FALSE, Detail("Couldn't find any Plex-related elements on the page", ""),
                     <<LogRec("warning", "Page doesn't contain expected Plex elements", "")>>, <<>>)
      [] outcome = "elements_raised" ->
            Returned(FALSE, Detail("Error checking page elements: ", e),
                     <<LogRec("error", "Error checking page elements: ", e)>>,
                     <<Exc("check_plex_availability", "Exception", e)>>)
      [] outcome = "raised" ->
            Raised(e, <<>>, <<Exc("check_plex_availability", "Exception", e)>>)

\* src/plex_selenium_monitor.py:81-139
check_plex_availability(outcome, e) ==
    CASE outcome = "elements_found" ->
            Returned(TRUE, Detail("Plex web interface is accessible", ""),
                     <<LogRec("info", "Found Plex elements: ", "")>>, <<>>)
      [] outcome = "plex_in_content" ->
            Returned(TRUE, Detail("Plex web interface is accessible (detected in content)", ""),
                     <<LogRec("info", "Page content appears to be related to Plex", "")>>, <<>>)
      [] outcome = "no_plex_content" ->
            Returned(FALSE, Detail("Couldn't find any Plex-related elements on the page", ""),
                     <<LogRec("warning", "Page doesn't contain expected Plex elements", "")>>, <<>>)
      [] outcome = "elements_raised" ->
            Returned(FALSE, Detail("Error checking page elements: ", e),
                     <<LogRec("error", "Error checking page elements: ", e)>>,
                     <<Exc("check_plex_availability", "Exception", e)>>)
      [] outcome = "raised" ->
            Returned(FALSE, Detail("Error: ", e),
                     <<LogRec("error", "Error accessing Plex: ", e)>>,
                     <<Exc("check_plex_availability", "Exception", e)>>)


-----------------------------------------------------------------------------
(* The script *)

Init ==
    /\ variant \in Variants
    /\ \E url \in UrlEnv, hook \in WebhookEnv, sh \in HourEnv, eh \in HourEnv,
          cred \in CredEnv :
          env = [PLEX_URL |-> url, PLEX_USERNAME |-> cred, PLEX_PASSWORD |-> cred,
                 PLEX_DISCORD_WEBHOOK |-> hook, START_HOUR |-> sh, END_HOUR |-> eh]
    /\ clock \in ClockHours
    /\ pc = "start"
    /\ monitor = NoMonitor
    /\ current_hour = -1
    /\ in_window = FALSE
    /\ browser = "none"
    /\ calls = <<>>
    /\ sent = <<>>
    /\ posts = <<>>
    /\ log = <<>>
    /\ raised = <<>>
    /\ results = <<>>
    /\ pending = ""
    /\ exit_status = -1

\* The interpreter compiles the script before running any of it.
\* src/plex_playwright_monitor.py:468-471 is not Python ("||", ".length"):
\* the compile raises SyntaxError and the process exits with status 1.
\* The other two scripts compile and reach their main block.
compiles(v) == v # "playwright"

LoadScript ==
    /\ pc = "start"
    /\ IF compiles(variant)
          THEN /\ pc' = "main"
               /\ exit_status' = exit_status
          ELSE /\ pc' = "exited"
               /\ exit_status' = 1
    /\ UNCHANGED <<variant, env, clock, monitor, current_hour, in_window, browser,
                   calls, sent, posts, log, raised, pending, results>>

\* monitor = PlexBrowserMonitor()
\* src/plex_monitor.py:350, src/plex_selenium_monitor.py:235
Construct ==
    /\ pc = "main"
    /\ LET r == PlexBrowserMonitor_init(env)
       IN  /\ log' = log \o r.log
           /\ calls' = Append(calls, Call("__init__", IF r.raised THEN "raised" ELSE "self"))
           /\ IF r.raised
                 THEN /\ pending' = r.exc
                      /\ monitor' = monitor
                      /\ pc' = "except"
                 ELSE /\ pending' = pending
                      /\ monitor' = r.self
                      /\ pc' = "run_once"
    /\ UNCHANGED <<variant, env, clock, current_hour, in_window, browser,
                   sent, posts, raised, exit_status, results>>

\* Variant: the "return" of the skip branch is missing.
RunOnce_window_no_return ==
    /\ pc = "run_once"
    /\ LET active == is_within_time_window(monitor.start_hour, monitor.end_hour, clock)
       IN  /\ current_hour' = clock
           /\ in_window' = active
           /\ calls' = calls \o <<Call("run_once", ""),
                                      Call("is_within_time_window",
                                           IF active THEN "True" ELSE "False")>>
           /\ IF active
                 THEN log' = Append(log, LogRec("info", "Running check at ", ""))
                 ELSE log' = log \o <<LogRec("info", "Running check at ", ""),
                                       LogRec("info", "Outside monitoring window. Skipping check.", "")>>
           /\ pc' = "setup_browser"
    /\ UNCHANGED <<variant, env, clock, monitor, browser, sent, posts,
                   raised, pending, exit_status, results>>

\* run_once up to the window check.
\* src/plex_monitor.py:296-304, src/plex_selenium_monitor.py:190-198
RunOnce_window ==
    /\ pc = "run_once"
    /\ LET active == is_within_time_window(monitor.start_hour, monitor.end_hour, clock)
       IN  /\ current_hour' = clock
           /\ in_window' = active
           /\ calls' = calls \o <<Call("run_once", ""),
                                      Call("is_within_time_window",
                                           IF active THEN "True" ELSE "False")>>
           /\ IF active
                 THEN /\ log' = Append(log, LogRec("info", "Running check at ", ""))
                      /\ pc' = "setup_browser"
                 ELSE /\ log' = log \o <<LogRec("info", "Running check at ", ""),
                                          LogRec("info", "Outside monitoring window. Skipping check.", "")>>
                      /\ pc' = "returned"
    /\ UNCHANGED <<variant, env, clock, monitor, browser, sent, posts,
                   raised, pending, exit_status, results>>

\* The call self.send_discord_notification(message, screenshot) made by
\* run_once: what it adds to calls, sent, posts and log.
notify(message, shot, outcome, e) ==
    LET r == send_discord_notification(monitor.webhook_url, message, shot, outcome, e)
    IN  [calls |-> <<Call("send_discord_notification", "None")>>,
         sent |-> <<message>>,
         posts |-> r.posts,
         log |-> r.log]

\* Outcomes of browser.quit() in the finally block: the browser is closed,
\* or quit() raised (swallowed by the bare except) with the browser process
\* gone or still running.
QuitOutcomes == {"closed", "raised_closed", "raised_open"}

quit(outcome) == IF outcome = "raised_open" THEN "open" ELSE "closed"

\* Variant: a failed browser setup is tried again.
RunOnce_setup_retry ==
    /\ pc = "setup_browser"
    /\ \E o \in SetupOutcomes, e \in ExcTexts :
          LET r == setup_browser(o, e)
          IN  /\ browser' = r.browser
              /\ raised' = raised \o r.excs
              /\ log' = log \o r.log
              /\ IF r.returned
                    THEN /\ calls' = Append(calls, Call("setup_browser", "browser"))
                         /\ pc' = IF variant = "uc" THEN "login_to_plex"
                                  ELSE "check_plex_availability"
                    ELSE /\ calls' = Append(calls, Call("setup_browser", "None"))
                         /\ pc' = "setup_browser"
    /\ UNCHANGED <<variant, env, clock, monitor, current_hour, in_window,
                   sent, posts, pending, exit_status, results>>

\* run_once: browser = self.setup_browser() and the "if not browser" branch.
\* src/plex_monitor.py:306-312, src/plex_selenium_monitor.py:200-206
RunOnce_setup ==
    /\ pc = "setup_browser"
    /\ \E o \in SetupOutcomes, e \in ExcTexts, po \in PostOutcomes :
          LET r == setup_browser(o, e)
              n == notify(Message("Plex Browser Alert: Failed to initialize browser",
                                  clock, NoDetail), "none", po, e)
          IN  /\ browser' = r.browser
              /\ raised' = raised \o r.excs
              /\ IF r.returned
                    THEN /\ calls' = Append(calls, Call("setup_browser", "browser"))
                         /\ log' = log \o r.log
                         /\ sent' = sent
                         /\ posts' = posts
                         /\ pc' = IF variant = "uc" THEN "login_to_plex"
                                  ELSE "check_plex_availability"
                    ELSE /\ calls' = Append(calls, Call("setup_browser", "None")) \o n.calls
                         /\ log' = log \o r.log
                                     \o <<LogRec("error", "Failed to initialize browser", "")>>
                                     \o n.log
                         /\ sent' = sent \o n.sent
                         /\ posts' = posts \o n.posts
                         /\ pc' = "returned"
    /\ UNCHANGED <<variant, env, clock, monitor, current_hour, in_window,
                   pending, exit_status, results>>

\* The "except Exception as e" branch of run_once: the message it builds
\* and the record it logs.
\* src/plex_monitor.py:336-339, src/plex_selenium_monitor.py:221-224
except_branch(exc) ==
    [message |-> Message("Plex Browser Error", clock, Detail("Error: ", exc)),
     log |-> <<LogRec("error", "Error during browser check: ", exc)>>]

\* Variant: the "return" after the failed-login alert is missing.
RunOnce_login_no_return ==
    /\ pc = "login_to_plex"
    /\ variant = "uc"
    /\ \E o \in LoginOutcomes, e \in ExcTexts, po \in PostOutcomes :
          LET r == login_to_plex(o, e)
              n == notify(Message("Plex Browser Alert: Failed to log in to Plex",
                                  clock, NoDetail), "none", po, e)
          IN  /\ raised' = raised \o r.excs
              /\ pc' = "attempt_to_play_media"
              /\ browser' = browser
              /\ IF r.ok
                    THEN /\ calls' = Append(calls, Call("login_to_plex", Ret(r)))
                         /\ log' = log \o r.log
                         /\ UNCHANGED <<sent, posts>>
                    ELSE /\ calls' = Append(calls, Call("login_to_plex", Ret(r))) \o n.calls
                         /\ log' = log \o r.log
                                     \o <<LogRec("error", "Failed to log in to Plex", "")>>
                                     \o n.log
                         /\ sent' = sent \o n.sent
                         /\ posts' = posts \o n.posts
    /\ UNCHANGED <<variant, env, clock, monitor, current_hour, in_window,
                   pending, exit_status, results>>

\* Variant: a failed login is reported under the headline of a failed
\* playback.
RunOnce_login_playback_alert ==
    /\ pc = "login_to_plex"
    /\ variant = "uc"
    /\ \E o \in LoginOutcomes, e \in ExcTexts, po \in PostOutcomes, q \in QuitOutcomes :
          LET r == login_to_plex(o, e)
              x == except_branch(r.exc)
              message == IF r.raised THEN x.message
                         ELSE Message("Plex Playback Alert", clock, NoDetail)
              lg == IF r.raised THEN x.log
                    ELSE <<LogRec("error", "Failed to log in to Plex", "")>>
              n == notify(message, "none", po, e)
          IN  /\ raised' = raised \o r.excs
              /\ IF ~r.raised /\ r.ok
                    THEN /\ calls' = Append(calls, Call("login_to_plex", Ret(r)))
                         /\ log' = log \o r.log
                         /\ pc' = "attempt_to_play_media"
                         /\ UNCHANGED <<sent, posts, browser>>
                    ELSE /\ calls' = Append(calls, Call("login_to_plex", Ret(r))) \o n.calls
                                       \o <<Call("browser.quit", q)>>
                         /\ log' = log \o r.log \o lg \o n.log
                         /\ sent' = sent \o n.sent
                         /\ posts' = posts \o n.posts
                         /\ browser' = quit(q)
                         /\ pc' = "returned"
    /\ UNCHANGED <<variant, env, clock, monitor, current_hour, in_window,
                   pending, exit_status, results>>

\* Variant: the password is wiped from the object once it has been typed.
RunOnce_login_clears_password ==
    /\ pc = "login_to_plex"
    /\ variant = "uc"
    /\ \E o \in LoginOutcomes, e \in ExcTexts, po \in PostOutcomes, q \in QuitOutcomes :
          LET r == login_to_plex(o, e)
              x == except_branch(r.exc)
              message == IF r.raised THEN x.message
                         ELSE Message("Plex Browser Alert: Failed to log in to Plex",
                                      clock, NoDetail)
              lg == IF r.raised THEN x.log
                    ELSE <<LogRec("error", "Failed to log in to Plex", "")>>
              n == notify(message, "none", po, e)
          IN  /\ raised' = raised \o r.excs
              /\ IF ~r.raised /\ r.ok
                    THEN /\ calls' = Append(calls, Call("login_to_plex", Ret(r)))
                         /\ log' = log \o r.log
                         /\ pc' = "attempt_to_play_media"
                         /\ UNCHANGED <<sent, posts, browser>>
                    ELSE /\ calls' = Append(calls, Call("login_to_plex", Ret(r))) \o n.calls
                                       \o <<Call("browser.quit", q)>>
                         /\ log' = log \o r.log \o lg \o n.log
                         /\ sent' = sent \o n.sent
                         /\ posts' = posts \o n.posts
                         /\ browser' = quit(q)
                         /\ pc' = "returned"
    /\ monitor' = [monitor EXCEPT !.plex_password = None]
    /\ UNCHANGED <<variant, env, clock, current_hour, in_window,
                   pending, exit_status, results>>

\* run_once: login_success = self.login_to_plex(browser), the
\* "if not login_success" branch, and the except and finally blocks.
\* src/plex_monitor.py:314-322, 336-345
RunOnce_login ==
    /\ pc = "login_to_plex"
    /\ variant = "uc"
    /\ \E o \in LoginOutcomes, e \in ExcTexts, po \in PostOutcomes, q \in QuitOutcomes :
          LET r == login_to_plex(o, e)
              x == except_branch(r.exc)
              message == IF r.raised THEN x.message
                         ELSE Message("Plex Browser Alert: Failed to log in to Plex",
                                      clock, NoDetail)
              lg == IF r.raised THEN x.log
                    ELSE <<LogRec("error", "Failed to log in to Plex", "")>>
              n == notify(message, "none", po, e)
          IN  /\ raised' = raised \o r.excs
              /\ IF ~r.raised /\ r.ok
                    THEN /\ calls' = Append(calls, Call("login_to_plex", Ret(r)))
                         /\ log' = log \o r.log
                         /\ pc' = "attempt_to_play_media"
                         /\ UNCHANGED <<sent, posts, browser>>
                    ELSE /\ calls' = Append(calls, Call("login_to_plex", Ret(r))) \o n.calls
                                       \o <<Call("browser.quit", q)>>
                         /\ log' = log \o r.log \o lg \o n.log
                         /\ sent' = sent \o n.sent
                         /\ posts' = posts \o n.posts
                         /\ browser' = quit(q)
                         /\ pc' = "returned"
    /\ UNCHANGED <<variant, env, clock, monitor, current_hour, in_window,
                   pending, exit_status, results>>

\* Variant: a successful playback is sent under the alert headline.
RunOnce_play_ok_as_alert ==
    /\ pc = "attempt_to_play_media"
    /\ variant = "uc"
    /\ \E o \in PlayOutcomes, label \in AriaLabels, e \in ExcTexts,
          po \in PostOutcomes, q \in QuitOutcomes :
          LET r == attempt_to_play_media(o, label, e)
              x == except_branch(r.exc)
              message == IF r.raised THEN x.message
                         ELSE IF r.ok
                            THEN Message("Plex Playback Alert", clock, r.message)
                         ELSE Message("Plex Playback Alert", clock, r.message)
              lg == IF r.raised THEN x.log
                    ELSE IF r.ok
                       THEN <<LogRec("info", "Media playback successful: ", r.message.arg)>>
                    ELSE <<LogRec("error", "Media playback failed: ", r.message.arg)>>
              n == notify(message, "none", po, e)
          IN  /\ raised' = raised \o r.excs
              /\ results' = IF r.raised THEN results
                            ELSE Append(results, Result(r.ok, r.message))
              /\ calls' = Append(calls, Call("attempt_to_play_media", Ret(r))) \o n.calls
                            \o <<Call("browser.quit", q)>>
              /\ log' = log \o r.log \o lg \o n.log
              /\ sent' = sent \o n.sent
              /\ posts' = posts \o n.posts
              /\ browser' = quit(q)
              /\ pc' = "returned"
    /\ UNCHANGED <<variant, env, clock, monitor, current_hour, in_window,
                   pending, exit_status>>

\* Variant: the success message leaves out play_message.
RunOnce_play_no_detail ==
    /\ pc = "attempt_to_play_media"
    /\ variant = "uc"
    /\ \E o \in PlayOutcomes, label \in AriaLabels, e \in ExcTexts,
          po \in PostOutcomes, q \in QuitOutcomes :
          LET r == attempt_to_play_media(o, label, e)
              x == except_branch(r.exc)
              message == IF r.raised THEN x.message
                         ELSE IF r.ok
                            THEN Message("Plex Media Playback OK", clock, NoDetail)
                         ELSE Message("Plex Playback Alert", clock, r.message)
              lg == IF r.raised THEN x.log
                    ELSE IF r.ok
                       THEN <<LogRec("info", "Media playback successful: ", r.message.arg)>>
                    ELSE <<LogRec("error", "Media playback failed: ", r.message.arg)>>
              n == notify(message, "none", po, e)
          IN  /\ raised' = raised \o r.excs
              /\ results' = IF r.raised THEN results
                            ELSE Append(results, Result(r.ok, r.message))
              /\ calls' = Append(calls, Call("attempt_to_play_media", Ret(r))) \o n.calls
                            \o <<Call("browser.quit", q)>>
              /\ log' = log \o r.log \o lg \o n.log
              /\ sent' = sent \o n.sent
              /\ posts' = posts \o n.posts
              /\ browser' = quit(q)
              /\ pc' = "returned"
    /\ UNCHANGED <<variant, env, clock, monitor, current_hour, in_window,
                   pending, exit_status>>

\* Variant: the notification is dispatched before the playback check.
RunOnce_play_notify_first ==
    /\ pc = "attempt_to_play_media"
    /\ variant = "uc"
    /\ \E o \in PlayOutcomes, label \in AriaLabels, e \in ExcTexts,
          po \in PostOutcomes, q \in QuitOutcomes :
          LET r == attempt_to_play_media(o, label, e)
              x == except_branch(r.exc)
              message == IF r.raised THEN x.message
                         ELSE IF r.ok
                            THEN Message("Plex Media Playback OK", clock, r.message)
                         ELSE Message("Plex Playback Alert", clock, r.message)
              lg == IF r.raised THEN x.log
                    ELSE IF r.ok
                       THEN <<LogRec("info", "Media playback successful: ", r.message.arg)>>
                    ELSE <<LogRec("error", "Media playback failed: ", r.message.arg)>>
              n == notify(message, "none", po, e)
          IN  /\ raised' = raised \o r.excs
              /\ results' = IF r.raised THEN results
                            ELSE Append(results, Result(r.ok, r.message))
              /\ calls' = calls \o n.calls
                            \o <<Call("attempt_to_play_media", Ret(r)), Call("browser.quit", q)>>
              /\ log' = log \o r.log \o lg \o n.log
              /\ sent' = sent \o n.sent
              /\ posts' = posts \o n.posts
              /\ browser' = quit(q)
              /\ pc' = "returned"
    /\ UNCHANGED <<variant, env, clock, monitor, current_hour, in_window,
                   pending, exit_status>>

\* run_once: play_success, play_message = self.attempt_to_play_media(browser),
\* the two report branches, and the except and finally blocks.
\* src/plex_monitor.py:324-345
RunOnce_play ==
    /\ pc = "attempt_to_play_media"
    /\ variant = "uc"
    /\ \E o \in PlayOutcomes, label \in AriaLabels, e \in ExcTexts,
          po \in PostOutcomes, q \in QuitOutcomes :
          LET r == attempt_to_play_media(o, label, e)
              x == except_branch(r.exc)
              message == IF r.raised THEN x.message
                         ELSE IF r.ok
                            THEN Message("Plex Media Playback OK", clock, r.message)
                         ELSE Message("Plex Playback Alert", clock, r.message)
              lg == IF r.raised THEN x.log
                    ELSE IF r.ok
                       THEN <<LogRec("info", "Media playback successful: ", r.message.arg)>>
                    ELSE <<LogRec("error", "Media playback failed: ", r.message.arg)>>
              n == notify(message, "none", po, e)
          IN  /\ raised' = raised \o r.excs
              /\ results' = IF r.raised THEN results
                            ELSE Append(results, Result(r.ok, r.message))
              /\ calls' = Append(calls, Call("attempt_to_play_media", Ret(r))) \o n.calls
                            \o <<Call("browser.quit", q)>>
              /\ log' = log \o r.log \o lg \o n.log
              /\ sent' = sent \o n.sent
              /\ posts' = posts \o n.posts
              /\ browser' = quit(q)
              /\ pc' = "returned"
    /\ UNCHANGED <<variant, env, clock, monitor, current_hour, in_window,
                   pending, exit_status>>

\* Variant: a successful check is logged and not notified.
RunOnce_check_quiet_ok ==
    /\ pc = "check_plex_availability"
    /\ variant = "selenium"
    /\ \E o \in AvailOutcomes, e \in ExcTexts, shot \in ShotStates,
          po \in PostOutcomes, q \in QuitOutcomes :
          LET r == check_plex_availability(o, e)
              n == notify(Message("Plex Web Interface Alert", clock, r.message),
                          shot, po, e)
          IN  /\ raised' = raised \o r.excs
              /\ results' = IF r.raised THEN results
                            ELSE Append(results, Result(r.ok, r.message))
              /\ browser' = quit(q)
              /\ pc' = "returned"
              /\ IF r.ok
                    THEN /\ calls' = Append(calls, Call("check_plex_availability", Ret(r)))
                                       \o <<Call("browser.quit", q)>>
                         /\ log' = log \o r.log
                                     \o <<LogRec("info", "Plex check successful: ", r.message.arg)>>
                         /\ UNCHANGED <<sent, posts>>
                    ELSE /\ calls' = Append(calls, Call("check_plex_availability", Ret(r)))
                                       \o n.calls \o <<Call("browser.quit", q)>>
                         /\ log' = log \o r.log
                                     \o <<LogRec("error", "Plex check failed: ", r.message.arg)>>
                                     \o n.log
                         /\ sent' = sent \o n.sent
                         /\ posts' = posts \o n.posts
    /\ UNCHANGED <<variant, env, clock, monitor, current_hour, in_window,
                   pending, exit_status>>

\* run_once: success, message = self.check_plex_availability(browser), the
\* two report branches (with the screenshot plex_page.png), and the except
\* and finally blocks.
\* src/plex_selenium_monitor.py:208-230
RunOnce_check ==
    /\ pc = "check_plex_availability"
    /\ variant = "selenium"
    /\ \E o \in AvailOutcomes, e \in ExcTexts, shot \in ShotStates,
          po \in PostOutcomes, q \in QuitOutcomes :
          LET r == check_plex_availability(o, e)
              x == except_branch(r.exc)
              message == IF r.raised THEN x.message
                         ELSE IF r.ok
                            THEN Message("Plex Web Interface OK", clock, r.message)
                         ELSE Message("Plex Web Interface Alert", clock, r.message)
              lg == IF r.raised THEN x.log
                    ELSE IF r.ok
                       THEN <<LogRec("info", "Plex check successful: ", r.message.arg)>>
                    ELSE <<LogRec("error", "Plex check failed: ", r.message.arg)>>
              n == notify(message, IF r.raised THEN "none" ELSE shot, po, e)
          IN  /\ raised' = raised \o r.excs
              /\ results' = IF r.raised THEN results
                            ELSE Append(results, Result(r.ok, r.message))
              /\ calls' = Append(calls, Call("check_plex_availability", Ret(r))) \o n.calls
                            \o <<Call("browser.quit", q)>>
              /\ log' = log \o r.log \o lg \o n.log
              /\ sent' = sent \o n.sent
              /\ posts' = posts \o n.posts
              /\ browser' = quit(q)
              /\ pc' = "returned"
    /\ UNCHANGED <<variant, env, clock, monitor, current_hour, in_window,
                   pending, exit_status>>

\* Variant: the post is made without the "if webhook_url" test.
MainExcept_always_post ==
    /\ pc = "except"
    /\ \E po \in PostOutcomes :
          LET webhook_url == getenv(env, "PLEX_DISCORD_WEBHOOK")
              post == [url |-> webhook_url.val,
                       content |-> Message("Plex Monitor Error", -1,
                                           Detail("The monitoring script encountered an error: ",
                                                  pending)),
                       file |-> FALSE, outcome |-> po]
          IN  /\ log' = Append(log, LogRec("error", "Fatal error in Plex Browser Monitor: ", pending))
              /\ posts' = Append(posts, post)
    /\ pc' = "handled"
    /\ UNCHANGED <<variant, env, clock, monitor, current_hour, in_window, browser,
                   calls, sent, raised, pending, exit_status, results>>

\* The main block's "except Exception as e": log the fatal error, then post
\* it if PLEX_DISCORD_WEBHOOK is truthy; an exception of the post is dropped.
\* src/plex_monitor.py:352-368, src/plex_selenium_monitor.py:237-253
MainExcept ==
    /\ pc = "except"
    /\ \E po \in PostOutcomes :
          LET webhook_url == getenv(env, "PLEX_DISCORD_WEBHOOK")
              post == [url |-> webhook_url.val,
                       content |-> Message("Plex Monitor Error", -1,
                                           Detail("The monitoring script encountered an error: ",
                                                  pending)),
                       file |-> FALSE, outcome |-> po]
          IN  /\ log' = Append(log, LogRec("error", "Fatal error in Plex Browser Monitor: ", pending))
              /\ posts' = IF Truthy(webhook_url) THEN Append(posts, post) ELSE posts
    /\ pc' = "handled"
    /\ UNCHANGED <<variant, env, clock, monitor, current_hour, in_window, browser,
                   calls, sent, raised, pending, exit_status, results>>

\* The main block has run to its end: the interpreter exits with status 0.
\* src/plex_monitor.py:348-368, src/plex_selenium_monitor.py:233-253
Finish ==
    /\ pc \in {"returned", "handled"}
    /\ pc' = "exited"
    /\ exit_status' = 0
    /\ UNCHANGED <<variant, env, clock, monitor, current_hour, in_window, browser,
                   calls, sent, posts, log, raised, pending, results>>

Next ==
    \/ LoadScript
    \/ Construct
    \/ RunOnce_window
    \/ RunOnce_setup
    \/ RunOnce_login
    \/ RunOnce_play
    \/ RunOnce_check
    \/ MainExcept
    \/ Finish

Spec == Init /\ [][Next]_vars

\* The script is one sequential thread: once the main block's handler is
\* entered it runs to its end (requests.post is bounded by timeout=10), and
\* once the main block is over the interpreter exits.
FairSpec == Spec /\ WF_vars(MainExcept) /\ WF_vars(Finish)

-----------------------------------------------------------------------------
(* The window check over every configurable window *)

\* The script has been loaded with a valid PLEX_URL; START_HOUR and END_HOUR
\* are unset or name any hour of the day, and the clock shows any hour.
InitWindow ==
    /\ variant \in {"uc", "selenium"}
    /\ \E sh \in {Unset} \cup {SetTo(HourText(h)) : h \in Hours},
          eh \in {Unset} \cup {SetTo(HourText(h)) : h \in Hours} :
          env = [PLEX_URL |-> [set |-> TRUE, val |-> "https://plex.example/web"],
                 PLEX_USERNAME |-> [set |-> FALSE, val |-> ""],
                 PLEX_PASSWORD |-> [set |-> FALSE, val |-> ""],
                 PLEX_DISCORD_WEBHOOK |-> [set |-> FALSE, val |-> ""],
                 START_HOUR |-> sh, END_HOUR |-> eh]
    /\ clock \in Hours
    /\ pc = "main"
    /\ monitor = NoMonitor
    /\ current_hour = -1
    /\ in_window = FALSE
    /\ browser = "none"
    /\ calls = <<>>
    /\ sent = <<>>
    /\ posts = <<>>
    /\ log = <<>>
    /\ raised = <<>>
    /\ results = <<>>
    /\ pending = ""
    /\ exit_status = -1

NextWindow ==
    \/ Construct
    \/ RunOnce_window

SpecWindow == InitWindow /\ [][NextWindow]_vars

\* The window check of this run has been made.
WindowChecked == current_hour # -1

-----------------------------------------------------------------------------
(* HealthAggregator and NotificationPolicy of the multi-resource variants *)

\* The scripts that probe several resources in one run (API token, direct
\* HTTP) are not among the three sources; their aggregation and policy are
\* modelled from the design contract.

Overall == {"ALL_OK", "PARTIAL", "ALL_FAILED", "UNREACHABLE"}

ProbeResult(resource_id, succeeded, detail) ==
    [resource_id |-> resource_id, succeeded |-> succeeded, detail |-> detail]

\* The longest sequence of probe results of one run.
MaxResults == 3

ResourceIds == {"movie", "show"}
ResultDetails == {"Inception", "no episodes"}

ProbeResultSet ==
    {ProbeResult(id, ok, d) : id \in ResourceIds, ok \in BOOLEAN, d \in ResultDetails}

ResultSeqs == UNION {[1..n -> ProbeResultSet] : n \in 0..MaxResults}

\* Variant: any failed result makes the run ALL_FAILED.
aggregate_any_failed(rs) ==
    IF rs = <<>> THEN "UNREACHABLE"
    ELSE IF \A i \in DOMAIN rs : rs[i].succeeded THEN "ALL_OK"
    ELSE "ALL_FAILED"

\* Variant: a run whose first result failed is ALL_FAILED.
aggregate_first_decides(rs) ==
    IF rs = <<>> THEN "UNREACHABLE"
    ELSE IF \A i \in DOMAIN rs : rs[i].succeeded THEN "ALL_OK"
    ELSE IF rs[1].succeeded THEN "PARTIAL"
    ELSE "ALL_FAILED"

\* aggregate(results): the overall status of a run.  After a connection
\* failure no resource is probed and the input is empty.
aggregate(rs) ==
    IF rs = <<>> THEN "UNREACHABLE"
    ELSE IF \A i \in DOMAIN rs : rs[i].succeeded THEN "ALL_OK"
    ELSE IF \E i \in DOMAIN rs : rs[i].succeeded THEN "PARTIAL"
    ELSE "ALL_FAILED"

\* decide(status): send flag, severity and title of the notification.
decide(overall) ==
    CASE overall = "UNREACHABLE" ->
            [send |-> TRUE, severity |-> "ERROR", title |-> "Server Alert - unreachable"]
      [] overall = "ALL_FAILED" ->
            [send |-> TRUE, severity |-> "ERROR",
             title |-> "Alert - failed to access any media/resource"]
      [] overall = "PARTIAL" ->
            [send |-> TRUE, severity |-> "WARN",
             title |-> "Partial Access - some resources inaccessible"]
      [] overall = "ALL_OK" ->
            [send |-> TRUE, severity |-> "OK", title |-> "Working - all resources accessible"]

\* One line of the notification body: glyph, resource id, detail.
Line(result) ==
    [glyph |-> IF result.succeeded THEN "ok" ELSE "fail",
     resource_id |-> result.resource_id, detail |-> result.detail]

\* Variant: the lines of the failed resources come first.
body_failures_first(rs) ==
    LET failed(r) == ~r.succeeded
        okay(r) == r.succeeded
        ordered == SelectSeq(rs, failed) \o SelectSeq(rs, okay)
    IN  [i \in DOMAIN rs |-> Line(ordered[i])]

\* The body: one line per result, in the order of the results.
body(rs) == [i \in DOMAIN rs |-> Line(rs[i])]

\* The notification of a run: decision and body.
Notification(overall, rs) ==
    LET d == decide(overall)
    IN  [title |-> d.title, severity |-> d.severity, body |-> body(rs)]

InitAggregate ==
    /\ variant = "token"
    /\ env = [PLEX_URL |-> [set |-> TRUE, val |-> "https://plex.example/web"],
              PLEX_USERNAME |-> [set |-> FALSE, val |-> ""],
              PLEX_PASSWORD |-> [set |-> FALSE, val |-> ""],
              PLEX_DISCORD_WEBHOOK |-> [set |-> FALSE, val |-> ""],
              START_HOUR |-> [set |-> FALSE, val |-> <<>>],
              END_HOUR |-> [set |-> FALSE, val |-> <<>>]]
    /\ clock = 10
    /\ pc = "probe"
    /\ monitor = NoMonitor
    /\ current_hour = 10
    /\ in_window = TRUE
    /\ browser = "none"
    /\ calls = <<>>
    /\ sent = <<>>
    /\ posts = <<>>
    /\ log = <<>>
    /\ raised = <<>>
    /\ results = <<>>
    /\ pending = ""
    /\ exit_status = -1

\* The probe: connect raises, or the resources are checked one after
\* another and each check gives one result.
Probe ==
    /\ pc = "probe"
    /\ \E connected \in BOOLEAN, rs \in ResultSeqs \ {<<>>} :
          IF connected
             THEN /\ results' = rs
                  /\ calls' = <<Call("connect", "connection")>>
                                \o [i \in DOMAIN rs |-> Call("check_resource", rs[i].resource_id)]
             ELSE /\ results' = <<>>
                  /\ calls' = <<Call("connect", "raised")>>
    /\ pc' = "aggregate"
    /\ UNCHANGED <<variant, env, clock, monitor, current_hour, in_window, browser,
                   sent, posts, log, raised, pending, exit_status>>

Aggregate ==
    /\ pc = "aggregate"
    /\ calls' = Append(calls, Call("aggregate", aggregate(results)))
    /\ pc' = "decide"
    /\ UNCHANGED <<variant, env, clock, monitor, current_hour, in_window, browser,
                   sent, posts, log, raised, results, pending, exit_status>>

Decide ==
    /\ pc = "decide"
    /\ LET overall == calls[Len(calls)].ret
           d == decide(overall)
       IN  /\ calls' = Append(calls, Call("decide", d.severity))
           /\ sent' = IF d.send THEN Append(sent, Notification(overall, results)) ELSE sent
    /\ pc' = "returned"
    /\ UNCHANGED <<variant, env, clock, monitor, current_hour, in_window, browser,
                   posts, log, raised, results, pending, exit_status>>

NextAggregate ==
    \/ Probe
    \/ Aggregate
    \/ Decide

SpecAggregate == InitAggregate /\ [][NextAggregate]_vars

\* aggregate has classified the results of this run.
Aggregated == variant = "token" /\ pc \in {"decide", "returned"}

\* The status aggregate returned.
ReturnedOverall == calls[CHOOSE i \in DOMAIN calls : calls[i].op = "aggregate"].ret

-----------------------------------------------------------------------------
\* C1: with start_hour < end_hour (all hours in 0..23), the window check
\* returns true exactly when start_hour <= hour < end_hour.
C1_PlainWindow ==
    (WindowChecked /\ monitor.start_hour < monitor.end_hour)
        => (in_window <=> (monitor.start_hour <= current_hour
                           /\ current_hour < monitor.end_hour))

\* The window 8..22 checked at 10 o'clock is active.
C1_Witness ==
    /\ WindowChecked
    /\ monitor.start_hour = 8 /\ monitor.end_hour = 22
    /\ current_hour = 10
    /\ in_window

\* C2: with start_hour > end_hour the window check returns true exactly when
\* hour >= start_hour or hour < end_hour; with START_HOUR and END_HOUR unset
\* the window is 8 -> 2 and the active hours are exactly 8..23, 0 and 1.
C2_WrapWindow ==
    /\ (WindowChecked /\ monitor.start_hour > monitor.end_hour)
          => (in_window <=> (current_hour >= monitor.start_hour
                             \/ current_hour < monitor.end_hour))
    /\ (WindowChecked /\ ~env.START_HOUR.set /\ ~env.END_HOUR.set)
          => /\ monitor.start_hour = 8
             /\ monitor.end_hour = 2
             /\ in_window <=> current_hour \in (8..23) \cup {0, 1}

\* The default window checked at 1 o'clock in the night is active.
C2_Witness ==
    /\ WindowChecked
    /\ ~env.START_HOUR.set /\ ~env.END_HOUR.set
    /\ current_hour = 1
    /\ in_window

\* The hours of the day at which the object's window is active.
ActiveHours == {h \in Hours : is_within_time_window(monitor.start_hour, monitor.end_hour, h)}

\* C3 as stated: with start_hour = end_hour exactly one hour of the day is
\* active.
C3_OneHourActive ==
    (WindowChecked /\ monitor.start_hour = monitor.end_hour)
        => Cardinality(ActiveHours) = 1

\* C3 amended: with start_hour = end_hour the window is active at every hour
\* of the day: the check returns true whatever the current hour.
C3_AlwaysActive ==
    (WindowChecked /\ monitor.start_hour = monitor.end_hour)
        => /\ in_window
           /\ ActiveHours = Hours

\* A window 6 -> 6 checked at 15 o'clock is active.
C3_Witness ==
    /\ WindowChecked
    /\ monitor.start_hour = 6 /\ monitor.end_hour = 6
    /\ current_hour = 15
    /\ in_window

-----------------------------------------------------------------------------
(* Reading the history of a run *)

Ops == {calls[i].op : i \in 1..Len(calls)}

Count(op) == Cardinality({i \in 1..Len(calls) : calls[i].op = op})

Called(op, ret) == \E i \in 1..Len(calls) : calls[i] = Call(op, ret)

RunOnceEntered == "run_once" \in Ops

RunOnceReturned == RunOnceEntered /\ pc \in {"returned", "exited"}

InWindowRun == WindowChecked /\ in_window

\* Browser launch and the probe steps of the three scripts.
ProbeOps == {"setup_browser", "login_to_plex", "attempt_to_play_media",
             "check_plex_availability"}

AlertTitles == {"Plex Browser Alert: Failed to initialize browser",
                "Plex Browser Alert: Failed to log in to Plex",
                "Plex Playback Alert", "Plex Web Interface Alert",
                "Plex Browser Error"}

\* PLEX_DISCORD_WEBHOOK holds a webhook address.
WebhookSet == Truthy(getenv(env, "PLEX_DISCORD_WEBHOOK"))

\* The environment makes the constructor raise.
ConfigError ==
    \/ ~Truthy(getenv(env, "PLEX_URL"))
    \/ ~py_int(getenv_default(env, "START_HOUR", <<"8">>)).ok
    \/ ~py_int(getenv_default(env, "END_HOUR", <<"2">>)).ok

-----------------------------------------------------------------------------
\* C4: when the window check finds the current hour outside the window,
\* run_once returns at once: no browser is launched, no probe step (login,
\* availability check, playback) runs and no notification is attempted; the
\* third script never enters run_once at all.
C4_OutsideWindowNoop ==
    /\ (WindowChecked
        /\ ~is_within_time_window(monitor.start_hour, monitor.end_hour, current_hour))
          => /\ pc \in {"returned", "exited"}
             /\ browser = "none"
             /\ Ops \cap (ProbeOps \cup {"send_discord_notification"}) = {}
             /\ sent = <<>>
             /\ posts = <<>>
    /\ variant = "playwright" => (calls = <<>> /\ browser = "none" /\ posts = <<>>)

\* The default window 8 -> 2 with the clock at 3: the run is over.
C4_Witness ==
    /\ pc = "exited"
    /\ WindowChecked /\ ~in_window
    /\ monitor.start_hour = 8 /\ monitor.end_hour = 2
    /\ current_hour = 3

ProbeGeneric(x) ==
    x.op \in {"attempt_to_play_media", "check_plex_availability"} /\ x.type = "Exception"

C6_ConnectFailure ==
    /\ Called("setup_browser", "None")
          => /\ InWindowRun
             /\ Count("send_discord_notification") = 1
             /\ Len(sent) = 1
             /\ sent[1].title = "Plex Browser Alert: Failed to initialize browser"
             /\ Ops \cap {"login_to_plex", "attempt_to_play_media",
                          "check_plex_availability"} = {}
             /\ Len(posts) = IF WebhookSet THEN 1 ELSE 0
    /\ Called("login_to_plex", "False")
          => /\ InWindowRun
             /\ Count("send_discord_notification") = 1
             /\ Len(sent) = 1
             /\ sent[1].title = "Plex Browser Alert: Failed to log in to Plex"
             /\ "attempt_to_play_media" \notin Ops
             /\ Count("setup_browser") = 1
             /\ Len(posts) = IF WebhookSet THEN 1 ELSE 0

\* A run whose login failed has posted its one alert and is over.
C6_Witness ==
    /\ pc = "exited"
    /\ Called("login_to_plex", "False")
    /\ Len(posts) = 1
    /\ posts[1].content.title = "Plex Browser Alert: Failed to log in to Plex"

\* C7: an in-window run calls send_discord_notification exactly once before
\* it returns, on every path (never twice while it runs, once when it has
\* returned); a run outside the window calls it never.
C7_ExactlyOneNotification ==
    /\ Len(sent) = Count("send_discord_notification")
    /\ Len(sent) <= 1
    /\ (RunOnceReturned /\ InWindowRun) => Len(sent) = 1
    /\ (InWindowRun /\ pc \notin {"returned", "exited"}) => Len(sent) = 0

\* A fully successful availability check has sent its OK message.
C7_Witness ==
    /\ pc = "exited"
    /\ variant = "selenium"
    /\ Called("check_plex_availability", "True")
    /\ Len(sent) = 1
    /\ sent[1].title = "Plex Web Interface OK"

\* C8 as stated: the process of a single-shot run always ends with exit
\* status 0.
C8_ExitStatusZero ==
    pc = "exited" => exit_status = 0

\* C9 as stated: with PLEX_URL absent the start-up fails, the failure is
\* posted to the webhook when one is configured, and the process exits with
\* a non-zero status.
C9_MissingUrlFatal ==
    (pc = "exited" /\ ~env.PLEX_URL.set)
        => /\ exit_status # 0
           /\ pending # "" => Len(posts) = IF WebhookSet THEN 1 ELSE 0

\* What holds of every state of a start-up that raised a configuration error.
ConfigErrorHandling ==
    /\ (ConfigError /\ variant # "playwright" /\ pc \notin {"start", "main"})
          => pending # ""
    /\ pending # ""
          => /\ ConfigError
             /\ pc \in {"except", "handled", "exited"}
             /\ Ops = {"__init__"}
             /\ ~WindowChecked
             /\ browser = "none"
             /\ sent = <<>>
             /\ pc = "except" => posts = <<>>
             /\ pc \in {"handled", "exited"}
                   => /\ Len(posts) = IF WebhookSet THEN 1 ELSE 0
                      /\ \A i \in 1..Len(posts) :
                            /\ posts[i].content.title = "Plex Monitor Error"
                            /\ posts[i].content.detail.arg = pending

\* C10: on a configuration error at start-up run_once is never entered (no
\* window check, no browser, no probe, no send_discord_notification); the
\* main block posts the error exactly once when PLEX_DISCORD_WEBHOOK holds
\* an address and never otherwise, and the process then ends.
C10_ConfigErrorHandling ==
    /\ []ConfigErrorHandling
    /\ (pending # "") ~> (pc = "exited")

\* PLEX_URL is missing, the webhook is configured: posted once, process over.
C10_Witness ==
    /\ pc = "exited"
    /\ pending = "Missing Plex URL."
    /\ WebhookSet
    /\ Len(posts) = 1

-----------------------------------------------------------------------------
(* Scheduler: the continuous loop of the long-running variants *)

\* The three scripts of this model run once and exit; the loop that calls
\* the single-shot run and then sleeps is modelled from the design
\* contract.  The clock is a time of day [hour, minute].

MinutesPerDay == 24 * 60

TimeOfDay(minutes) ==
    [hour |-> (minutes % MinutesPerDay) \div 60, minute |-> minutes % 60]

MinuteOfDay(t) == t.hour * 60 + t.minute

\* Windows (start_hour, end_hour) of the loop's configuration.
LoopWindows == {<<8, 2>>, <<8, 22>>, <<22, 6>>, <<0, 23>>, <<6, 6>>}

\* Random minute offsets of the sleep outside the window (0..59) and random
\* sleeps inside the window (1..59 minutes).
Offsets == {0, 17, 59}
Jitters == {1, 30, 59}

\* Variant: the sleep outside the window always aims at the next day.
sleep_outside_tomorrow(now, start_hour, offset) ==
    LET days == 1
    IN  [days |-> days, hour |-> start_hour, minute |-> offset,
         duration |-> days * MinutesPerDay + start_hour * 60 + offset - MinuteOfDay(now)]

\* The sleep after a tick outside the window: until start_hour of today if
\* start_hour is still ahead, else of tomorrow, plus the minute offset.
sleep_outside(now, start_hour, offset) ==
    LET days == IF start_hour * 60 > MinuteOfDay(now) THEN 0 ELSE 1
    IN  [days |-> days, hour |-> start_hour, minute |-> offset,
         duration |-> days * MinutesPerDay + start_hour * 60 + offset - MinuteOfDay(now)]

\* The sleep after a tick inside the window: a random number of minutes
\* within the next hour.
sleep_inside(now, jitter) ==
    LET wake == TimeOfDay(MinuteOfDay(now) + jitter)
    IN  [days |-> IF MinuteOfDay(now) + jitter >= MinutesPerDay THEN 1 ELSE 0,
         hour |-> wake.hour, minute |-> wake.minute, duration |-> jitter]

InitLoop ==
    /\ variant = "loop"
    /\ env = [PLEX_URL |-> [set |-> TRUE, val |-> "https://plex.example/web"],
              PLEX_USERNAME |-> [set |-> FALSE, val |-> ""],
              PLEX_PASSWORD |-> [set |-> FALSE, val |-> ""],
              PLEX_DISCORD_WEBHOOK |-> [set |-> FALSE, val |-> ""],
              START_HOUR |-> [set |-> FALSE, val |-> <<>>],
              END_HOUR |-> [set |-> FALSE, val |-> <<>>]]
    /\ \E w \in LoopWindows :
          monitor = [NoMonitor EXCEPT !.start_hour = w[1], !.end_hour = w[2]]
    /\ \E h \in Hours : clock = [hour |-> h, minute |-> 0]
    /\ pc = "tick"
    /\ current_hour = -1
    /\ in_window = FALSE
    /\ browser = "none"
    /\ calls = <<>>
    /\ sent = <<>>
    /\ posts = <<>>
    /\ log = <<>>
    /\ raised = <<>>
    /\ results = <<>>
    /\ pending = ""
    /\ exit_status = -1

\* One tick of the loop: the single-shot run (window check, and the probe
\* when the window is active), then the choice of the sleep.
LoopTick ==
    /\ pc = "tick"
    /\ LET active == is_within_time_window(monitor.start_hour, monitor.end_hour, clock.hour)
       IN  /\ current_hour' = clock.hour
           /\ in_window' = active
           /\ IF active
                 THEN \E j \in Jitters :
                        calls' = <<Call("run_once", ""), Call("probe", ""),
                                   Call("sleep", sleep_inside(clock, j))>>
                 ELSE \E o \in Offsets :
                        calls' = <<Call("run_once", ""),
                                   Call("sleep", sleep_outside(clock, monitor.start_hour, o))>>
    /\ pc' = "sleep"
    /\ UNCHANGED <<variant, env, clock, monitor, browser, sent, posts, log, raised,
                   results, pending, exit_status>>

\* The sleep is over: the clock has advanced by its duration.
LoopSleep ==
    /\ pc = "sleep"
    /\ clock' = TimeOfDay(MinuteOfDay(clock) + calls[Len(calls)].ret.duration)
    /\ pc' = "tick"
    /\ UNCHANGED <<variant, env, monitor, current_hour, in_window, browser, calls, sent,
                   posts, log, raised, results, pending, exit_status>>

NextLoop ==
    \/ LoopTick
    \/ LoopSleep

SpecLoop == InitLoop /\ [][NextLoop]_vars

\* The loop is one sequential thread: a tick that is due runs, and a sleep
\* that has begun ends.
FairSpecLoop == SpecLoop /\ WF_vars(LoopTick) /\ WF_vars(LoopSleep)

-----------------------------------------------------------------------------
\* Some result of the run succeeded / failed.
SomeSucceeded == \E i \in DOMAIN results : results[i].succeeded
SomeFailed == \E i \in DOMAIN results : ~results[i].succeeded

\* The four cases of the classification.
CaseUnreachable == results = <<>>
CaseAllOk == results # <<>> /\ ~SomeFailed
CasePartial == SomeSucceeded /\ SomeFailed
CaseAllFailed == results # <<>> /\ ~SomeSucceeded

\* C11: aggregate gives UNREACHABLE for the empty input (the input after a
\* connection failure), ALL_OK for a non-empty input whose results all
\* succeeded, PARTIAL when at least one succeeded and at least one failed,
\* ALL_FAILED for a non-empty input whose results all failed; exactly one of
\* the four cases applies to every input.
C11_AggregateCases ==
    Aggregated =>
        /\ ReturnedOverall \in Overall
        /\ Called("connect", "raised") => ReturnedOverall = "UNREACHABLE"
        /\ ReturnedOverall = "UNREACHABLE" <=> CaseUnreachable
        /\ ReturnedOverall = "ALL_OK" <=> CaseAllOk
        /\ ReturnedOverall = "PARTIAL" <=> CasePartial
        /\ ReturnedOverall = "ALL_FAILED" <=> CaseAllFailed
        /\ Cardinality({c \in {"a", "b", "c", "d"} :
                          \/ c = "a" /\ CaseUnreachable
                          \/ c = "b" /\ CaseAllOk
                          \/ c = "c" /\ CasePartial
                          \/ c = "d" /\ CaseAllFailed}) = 1

\* Three results, a failure between two successes, classified PARTIAL.
C11_Witness ==
    /\ Aggregated
    /\ Len(results) = 3
    /\ results[1].succeeded /\ ~results[2].succeeded /\ results[3].succeeded
    /\ ReturnedOverall = "PARTIAL"

-----------------------------------------------------------------------------
\* The overall status a message of run_once stands for, by its headline:
\* the browser alerts and the browser error report that the server was not
\* reached or not entered, the playback / web interface alert reports the
\* failed resource check, the OK headlines the successful one.
\* src/plex_monitor.py:306-339, src/plex_selenium_monitor.py:200-224
reported(message) ==
    CASE message.title \in {"Plex Browser Alert: Failed to initialize browser",
                            "Plex Browser Alert: Failed to log in to Plex",
                            "Plex Browser Error"} -> "UNREACHABLE"
      [] message.title \in {"Plex Playback Alert", "Plex Web Interface Alert"} -> "ALL_FAILED"
      [] message.title \in {"Plex Media Playback OK", "Plex Web Interface OK"} -> "ALL_OK"

\* The connection step of the run (browser setup, login) failed.
ConnectFailed == Called("setup_browser", "None") \/ Called("login_to_plex", "False")

\* Number of resource checks the run invoked.
ProbesRun == Count("attempt_to_play_media") + Count("check_plex_availability")

\* C12: a run is reported as UNREACHABLE exactly when its connection step
\* failed before any resource check ran; a run whose checks ran and all
\* failed is reported as ALL_FAILED, never as UNREACHABLE, and a run whose
\* connection failed is never reported as ALL_FAILED.  The reported status
\* is the one aggregate gives for the results of the run.
C12_UnreachableIffConnectFailed ==
    (RunOnceReturned /\ InWindowRun) =>
        /\ Len(sent) = 1
        /\ reported(sent[1]) = "UNREACHABLE" <=> (ConnectFailed /\ ProbesRun = 0)
        /\ ConnectFailed <=> results = <<>>
        /\ (results # <<>> /\ ~SomeSucceeded) => reported(sent[1]) = "ALL_FAILED"
        /\ ConnectFailed => reported(sent[1]) # "ALL_FAILED"
        /\ reported(sent[1]) = aggregate(results)

\* A run whose login failed, and a run whose playback failed after a good
\* login: the first is over without a result, the second with a failed one.
C12_Witness ==
    /\ RunOnceReturned /\ InWindowRun
    /\ variant = "uc"
    /\ Called("login_to_plex", "True")
    /\ Len(results) = 1 /\ ~results[1].succeeded
    /\ reported(sent[1]) = "ALL_FAILED"

-----------------------------------------------------------------------------
\* The severity of a message of run_once: the check-mark headlines, logged
\* with logging.info, are the success messages; the warning-sign headlines,
\* logged with logging.error, are the failure messages.
\* src/plex_monitor.py:309-338, src/plex_selenium_monitor.py:203-223
severity(message) ==
    IF message.title \in {"Plex Media Playback OK", "Plex Web Interface OK"}
        THEN "OK"
        ELSE "ERROR"

\* The record run_once logs with a message of that severity.
RunLogged(level) ==
    \E i \in DOMAIN log :
        /\ log[i].level = level
        /\ log[i].msg \in {"Failed to initialize browser", "Failed to log in to Plex",
                           "Media playback failed: ", "Plex check failed: ",
                           "Error during browser check: ",
                           "Media playback successful: ", "Plex check successful: "}

\* C13: what is sent depends on the overall status alone: an UNREACHABLE or
\* ALL_FAILED run sends an ERROR message, a PARTIAL run a WARN message, an
\* ALL_OK run an OK message; no success message is sent for a failed run
\* and no failure message for a fully successful run.
C13_DecisionByStatus ==
    /\ decide("PARTIAL").severity = "WARN" /\ decide("PARTIAL").send
    /\ (RunOnceReturned /\ InWindowRun) =>
          LET d == decide(aggregate(results))
          IN  /\ d.send /\ Len(sent) = 1
              /\ severity(sent[1]) = d.severity
              /\ aggregate(results) \in {"UNREACHABLE", "ALL_FAILED"}
                    => /\ severity(sent[1]) = "ERROR"
                       /\ RunLogged("error") /\ ~RunLogged("info")
              /\ aggregate(results) = "ALL_OK"
                    => /\ severity(sent[1]) = "OK"
                       /\ RunLogged("info") /\ ~RunLogged("error")
              /\ (SomeFailed \/ ConnectFailed) => severity(sent[1]) # "OK"
              /\ (results # <<>> /\ ~SomeFailed) => severity(sent[1]) = "OK"

\* A successful playback has been posted as a success message.
C13_Witness ==
    /\ RunOnceReturned /\ InWindowRun
    /\ variant = "uc"
    /\ Len(results) = 1 /\ results[1].succeeded
    /\ Len(posts) = 1
    /\ severity(posts[1].content) = "OK"

-----------------------------------------------------------------------------
\* The resources checked by the run, in the order of the check_resource calls.
CheckedInOrder ==
    LET isCheck(c) == c.op = "check_resource"
        checks == SelectSeq(calls, isCheck)
    IN  [i \in DOMAIN checks |-> checks[i].ret]

\* The run of the scenario: "movie" succeeded with detail "Inception", then
\* "show" failed with detail "no episodes".
MovieThenShow ==
    results = <<ProbeResult("movie", TRUE, "Inception"),
                ProbeResult("show", FALSE, "no episodes")>>

\* C14: the body of the notification has exactly one line per probe result,
\* in the order in which the resources were probed, each with the glyph,
\* resource id and detail of its result; the run "movie" ok, "show" failed
\* sends a single WARN notification whose two lines are the movie line and
\* the show line, in that order.
C14_BodyLinesInOrder ==
    (variant = "token" /\ pc = "returned") =>
        /\ Len(sent) = 1
        /\ Len(sent[1].body) = Len(results)
        /\ \A i \in DOMAIN results :
              /\ sent[1].body[i] = Line(results[i])
              /\ sent[1].body[i].resource_id = CheckedInOrder[i]
              /\ sent[1].body[i].detail = results[i].detail
              /\ sent[1].body[i].glyph = "ok" <=> results[i].succeeded
        /\ MovieThenShow
              => /\ sent[1].severity = "WARN"
                 /\ sent[1].body = <<[glyph |-> "ok", resource_id |-> "movie",
                                      detail |-> "Inception"],
                                     [glyph |-> "fail", resource_id |-> "show",
                                      detail |-> "no episodes"]>>

\* The scenario has run and its notification has been sent.
C14_Witness ==
    /\ variant = "token" /\ pc = "returned"
    /\ MovieThenShow
    /\ Len(sent) = 1
    /\ sent[1].severity = "WARN"

-----------------------------------------------------------------------------
\* The results of the run, rearranged by the permutation p of their positions.
Permuted(p) == [i \in DOMAIN results |-> results[p[i]]]

\* C15: the status aggregate returns does not depend on the order of the
\* results: for every permutation of the results of the run, aggregate
\* gives the status it gave for the run.
C15_OrderIndependent ==
    Aggregated =>
        \A p \in Permutations(DOMAIN results) :
            aggregate(Permuted(p)) = ReturnedOverall

\* A run with a failure first and two successes after it, classified
\* PARTIAL: its six orders are not all the same sequence.
C15_Witness ==
    /\ Aggregated
    /\ Len(results) = 3
    /\ ~results[1].succeeded /\ results[2].succeeded /\ results[3].succeeded
    /\ results[2] # results[3]
    /\ ReturnedOverall = "PARTIAL"

-----------------------------------------------------------------------------
\* C16: within one execution of run_once the browser setup, the login and
\* each resource check are invoked at most once, also after one of them
\* failed: a failed step is not invoked again and run_once is not entered a
\* second time.
C16_NoRetry ==
    /\ \A op \in ProbeOps \cup {"run_once", "is_within_time_window"} : Count(op) <= 1
    /\ ProbesRun <= 1
    /\ Called("setup_browser", "None") => Count("setup_browser") = 1
    /\ Called("login_to_plex", "False")
          => Count("login_to_plex") = 1 /\ Count("setup_browser") = 1
    /\ (results # <<>> /\ ~results[1].succeeded)
          => ProbesRun = 1 /\ Count("setup_browser") = 1
    /\ Len(raised) <= 1

\* A run whose playback raised inside the check is over: setup, login and
\* the check were each invoked once.
C16_Witness ==
    /\ pc = "exited"
    /\ variant = "uc"
    /\ Len(raised) = 1 /\ raised[1].op = "attempt_to_play_media"
    /\ Count("setup_browser") = 1
    /\ Count("login_to_plex") = 1
    /\ Count("attempt_to_play_media") = 1

-----------------------------------------------------------------------------
\* The log holds an error record with that text.
ErrorLogged(msg) == \E i \in DOMAIN log : log[i].level = "error" /\ log[i].msg = msg

\* C17: each call of send_discord_notification makes at most one HTTP POST;
\* a response other than 204 and an exception while posting are logged as
\* errors, the post is not made again, and the call returns to run_once,
\* which ends normally.
C17_FireAndForget ==
    RunOnceEntered =>
        /\ Len(posts) <= Len(sent)
        /\ Len(posts) <= 1
        /\ \A i \in DOMAIN posts :
              /\ posts[i].content = sent[i]
              /\ posts[i].outcome = "500"
                    => \E k \in DOMAIN log :
                          log[k] = LogRec("error", "Failed to send Discord notification: ", "500")
              /\ posts[i].outcome = "raised"
                    => ErrorLogged("Error sending Discord notification: ")
        /\ \A i \in DOMAIN raised : raised[i].op # "send_discord_notification"
        /\ pending = ""
        /\ Len(sent) = 1 => pc \in {"returned", "exited"}
        /\ pc = "exited" => exit_status = 0

\* The post of a run's message was answered with 500: one post, the error
\* logged, the script over with status 0.
C17_Witness ==
    /\ pc = "exited"
    /\ RunOnceEntered
    /\ Len(posts) = 1
    /\ posts[1].outcome = "500"
    /\ ErrorLogged("Failed to send Discord notification: ")

-----------------------------------------------------------------------------
\* The texts with which the handlers of an operation log the exception they
\* caught.
HandlerTexts(op) ==
    CASE op = "setup_browser" -> {"Failed to initialize browser: "}
      [] op = "login_to_plex" -> {"Password field not found", "Error during login: "}
      [] op = "attempt_to_play_media" ->
            {"Couldn't find play button", "Error during play attempt: ",
             "Error attempting to play media: "}
      [] op = "check_plex_availability" ->
            {"Error checking page elements: ", "Error accessing Plex: "}

\* browser.quit() raised in the finally block of run_once.
QuitRaised == Called("browser.quit", "raised_closed") \/ Called("browser.quit", "raised_open")

\* The main block's handler has run and its post of the fatal error raised.
FatalPostRaised ==
    /\ pc \in {"handled", "exited"}
    /\ pending # ""
    /\ posts # <<>>
    /\ posts[Len(posts)].outcome = "raised"

\* C18: every exception caught on a path of the script leaves a log record:
\* the exceptions caught inside the steps of run_once, an exception of
\* browser.quit() in the cleanup, the exception caught by the main block's
\* handler, and an exception of the handler's own webhook post.
C18_EveryCaughtErrorLogged ==
    /\ \A i \in DOMAIN raised :
          \E k \in DOMAIN log :
              log[k].level = "error" /\ log[k].msg \in HandlerTexts(raised[i].op)
    /\ QuitRaised => \E k \in DOMAIN log : log[k].msg = "Error closing browser: "
    /\ (pc \in {"handled", "exited"} /\ pending # "")
          => ErrorLogged("Fatal error in Plex Browser Monitor: ")
    /\ FatalPostRaised
          => log[Len(log)].msg # "Fatal error in Plex Browser Monitor: "

-----------------------------------------------------------------------------
\* The resource checks of the scripts.
CheckOps == {"attempt_to_play_media", "check_plex_availability"}

-----------------------------------------------------------------------------
\* C20: every result a resource check returns, a success as well as a
\* failure, has a non-empty detail text, and the message the run sends (and
\* posts, when a post is made) ends with that detail.
C20_DetailAlwaysPresent ==
    \A i \in DOMAIN results :
        /\ results[i].detail.text # ""
        /\ Len(sent) = 1
        /\ sent[1].detail = results[i].detail
        /\ \A k \in DOMAIN posts : posts[k].content.detail = results[i].detail

\* A successful playback of "Inception" and a check that found no Plex
\* content: here the first, posted with its detail.
C20_Witness ==
    /\ pc = "exited"
    /\ results = <<Result(TRUE, Detail("Successfully played: ", "Inception"))>>
    /\ Len(posts) = 1
    /\ posts[1].content.detail = Detail("Successfully played: ", "Inception")

-----------------------------------------------------------------------------
\* Some call before position i is the given one.
CalledBefore(i, op, ret) == \E j \in 1..(i - 1) : calls[j] = Call(op, ret)

\* C21: the steps of a run occur in the order window check, connect,
\* resource check, notify: the browser setup is invoked only after the
\* window check returned true, login and the resource checks only after the
\* browser setup returned a browser, the playback check only after the login
\* succeeded, and the message about the outcome of a resource check is
\* handed to send_discord_notification only after that check has returned.
C21_StepOrder ==
    \A i \in DOMAIN calls :
        /\ calls[i].op = "is_within_time_window" => CalledBefore(i, "run_once", "")
        /\ calls[i].op = "setup_browser"
              => CalledBefore(i, "is_within_time_window", "True")
        /\ calls[i].op \in {"login_to_plex", "check_plex_availability"}
              => CalledBefore(i, "setup_browser", "browser")
        /\ calls[i].op = "attempt_to_play_media"
              => /\ CalledBefore(i, "login_to_plex", "True")
                 /\ CalledBefore(i, "setup_browser", "browser")
        /\ (calls[i].op = "send_discord_notification" /\ results # <<>>)
              => \E j \in 1..(i - 1) : calls[j].op \in CheckOps
        /\ calls[i].op = "send_discord_notification"
              => CalledBefore(i, "is_within_time_window", "True")

\* A full run of the uc script: its calls in order.
C21_Witness ==
    /\ pc = "exited"
    /\ calls = <<Call("__init__", "self"), Call("run_once", ""),
                 Call("is_within_time_window", "True"),
                 Call("setup_browser", "browser"), Call("login_to_plex", "True"),
                 Call("attempt_to_play_media", "False"),
                 Call("send_discord_notification", "None"),
                 Call("browser.quit", "closed")>>

-----------------------------------------------------------------------------
\* The constructor has returned the monitor object.
MonitorExists == Called("__init__", "self")

\* C22: the start_hour and end_hour of every monitor object are integers in
\* 0..23, whatever the values of START_HOUR and END_HOUR in the environment.
C22_HoursInRange ==
    MonitorExists => (monitor.start_hour \in Hours /\ monitor.end_hour \in Hours)

-----------------------------------------------------------------------------
\* The fields the constructor gave the monitor object.
Configured == PlexBrowserMonitor_init(env).self

\* C23: the configuration does not change during a run: once the monitor
\* object exists, no step of run_once and no operation it calls changes
\* plex_url, the credentials, webhook_url, start_hour or end_hour (nor the
\* environment they were read from), on the error paths as on the others.
C23_ConfigImmutable ==
    /\ [](MonitorExists => monitor = Configured)
    /\ [][MonitorExists => (monitor' = monitor /\ env' = env)]_vars

\* A run in which the playback check raised is over and the object still
\* has the fields the constructor gave it.
C23_Witness ==
    /\ pc = "exited"
    /\ variant = "uc"
    /\ Len(raised) = 1 /\ raised[1].op = "attempt_to_play_media"
    /\ monitor = Configured
    /\ Truthy(monitor.plex_password)

-----------------------------------------------------------------------------
\* The loop is asleep after a tick that found the clock outside the window.
AsleepOutside == variant = "loop" /\ pc = "sleep" /\ ~in_window

\* The sleep chosen by the last tick.
Sleep == calls[Len(calls)].ret

\* The sleep after a tick outside the window: no probe was made, and the
\* wake-up time is start_hour of today when start_hour is still ahead, of
\* tomorrow otherwise, plus 0..59 minutes.
SleepsUntilStart ==
    AsleepOutside =>
        /\ \A i \in DOMAIN calls : calls[i].op # "probe"
        /\ Sleep.hour = monitor.start_hour
        /\ Sleep.minute \in 0..59
        /\ Sleep.days = (IF current_hour < monitor.start_hour THEN 0 ELSE 1)
        /\ Sleep.duration > 0
        /\ MinuteOfDay(clock) + Sleep.duration
              = Sleep.days * MinutesPerDay + monitor.start_hour * 60 + Sleep.minute

\* C24: in the continuous loop a tick outside the window makes no probe and
\* sleeps until start_hour of the current day if start_hour is still ahead,
\* otherwise of the next day, plus 0..59 minutes; the next tick then falls
\* within the hour start_hour; and the loop never ends: it is always
\* ticking or asleep, and it ticks again and again.
C24_LoopSleepsUntilStart ==
    /\ []SleepsUntilStart
    /\ [][AsleepOutside => (pc' = "tick" /\ clock'.hour = monitor.start_hour)]_vars
    /\ [](variant = "loop" => pc \in {"tick", "sleep"})
    /\ []<>(pc = "tick")
    /\ []<>(pc = "sleep")

\* At 23:00 the window 8 -> 22 is closed: the loop sleeps until 8:17 of the
\* next day.
C24_Witness ==
    /\ AsleepOutside
    /\ monitor.start_hour = 8 /\ monitor.end_hour = 22
    /\ clock = [hour |-> 23, minute |-> 0]
    /\ Sleep.days = 1 /\ Sleep.hour = 8 /\ Sleep.minute = 17
    /\ Sleep.duration = 557

-----------------------------------------------------------------------------
\* C25: when run_once has returned, no browser launched by the run is left
\* running: none was launched, or the one launched has been closed; this
\* on every path, a browser setup that failed after the launch included.
C25_BrowserClosed ==
    RunOnceReturned => browser \in {"none", "closed"}

-----------------------------------------------------------------------------
\* The log holds a warning record with that text.
WarningLogged(msg) == \E i \in DOMAIN log : log[i].level = "warning" /\ log[i].msg = msg

\* C26: with PLEX_DISCORD_WEBHOOK unset or empty the constructor does not
\* raise on that account (it logs a warning), an in-window run goes through
\* browser setup, connect and resource check as far as each step succeeds
\* and hands its one message to send_discord_notification, and no HTTP
\* post is made on any path.
C26_NoWebhookNoPost ==
    ~WebhookSet =>
        /\ posts = <<>>
        /\ (pc \notin {"start", "main"} /\ compiles(variant))
              => (ConfigError <=> ~MonitorExists)
        /\ MonitorExists
              => WarningLogged("Discord webhook URL not configured. No notifications will be sent.")
        /\ (RunOnceReturned /\ InWindowRun)
              => /\ Count("setup_browser") = 1
                 /\ Called("setup_browser", "browser")
                       => Count("login_to_plex") + Count("check_plex_availability") = 1
                 /\ Called("login_to_plex", "True") => Count("attempt_to_play_media") = 1
                 /\ Len(sent) = 1
                 /\ WarningLogged("Discord webhook URL not configured")
                 /\ pending = ""

\* Without a webhook a run of the uc script has played a title and is over:
\* the message was built, nothing was posted.
C26_Witness ==
    /\ pc = "exited"
    /\ ~env.PLEX_DISCORD_WEBHOOK.set
    /\ Called("attempt_to_play_media", "True")
    /\ Len(sent) = 1
    /\ posts = <<>>

-----------------------------------------------------------------------------
\* The Playwright script is started with hours that parse, at an hour inside
\* the window.
PlaywrightInWindow ==
    LET sh == py_int(getenv_default(env, "START_HOUR", <<"8">>))
        eh == py_int(getenv_default(env, "END_HOUR", <<"2">>))
    IN  /\ variant = "playwright"
        /\ sh.ok /\ eh.ok
        /\ is_within_time_window(sh.val, eh.val, clock)

\* C27: in the Playwright variant the success outcome is reachable: an
\* in-window process runs its check and sends its one message, the OK
\* message when the browser starts, the page shows no challenge and the
\* Plex markers are found.  What every such process must satisfy when it
\* has ended: run_once was entered and one message, the OK message or an
\* alert, was sent.
C27_PlaywrightSuccessReachable ==
    (PlaywrightInWindow /\ pc = "exited")
        => /\ RunOnceEntered
           /\ Len(sent) = 1
           /\ sent[1].title \in {"Plex Web Interface OK"} \cup AlertTitles

-----------------------------------------------------------------------------
\* The window check of the object with start_hour and end_hour exchanged.
SwappedActive(h) == is_within_time_window(monitor.end_hour, monitor.start_hour, h)

\* C28: for distinct hours s and e in 0..23 the window (s, e) and the
\* swapped window (e, s) partition the day: every hour is active in exactly
\* one of the two, and so is the hour at which the check was made.
C28_SwappedWindowsPartition ==
    (WindowChecked /\ monitor.start_hour # monitor.end_hour
                   /\ monitor.start_hour \in Hours /\ monitor.end_hour \in Hours)
        => /\ \A h \in Hours : (h \in ActiveHours) <=> ~SwappedActive(h)
           /\ in_window <=> ~SwappedActive(current_hour)
           /\ Cardinality(ActiveHours)
                 + Cardinality({h \in Hours : SwappedActive(h)}) = 24

\* The window 22 -> 6 checked at 6 o'clock is closed; the swapped window
\* 6 -> 22 is open at that hour.
C28_Witness ==
    /\ WindowChecked
    /\ monitor.start_hour = 22 /\ monitor.end_hour = 6
    /\ current_hour = 6
    /\ ~in_window
    /\ SwappedActive(6)

=============================================================================
